---- MODULE Spec2Model ----
(***************************************************************************)
(* Model of encode.py: main's loop over the argument paths, the settings   *)
(* cache, and encode_video's assembly of the ffmpeg command (audio map,    *)
(* subtitle burn-in, reencode, preset, resolution scale).                  *)
(*                                                                         *)
(* Strings that the code builds and patches (filter_complex) are modelled  *)
(* as sequences of tokens: a label such as "[vout]", a filter body such as *)
(* "scale=-1:720", or the separator ";".  str.replace and the `in` test    *)
(* work on those tokens.  Python's None is a sentinel of the field's type. *)
(***************************************************************************)
EXTENDS Integers, Sequences, FiniteSets, TLC

\* ---- bounds of the model ----
MaxFiles == 2
MaxTracks == 2
MaxRetries == 1

\* ---- Python None, one sentinel per type ----
NoneStr == "None"
NoneList == <<"None">>
NoneInt == 0 - 1
NonePreset == [name |-> "None", codec |-> "None", params |-> <<>>]

\* ---- configuration (lines 8-24) ----
DEFAULT_PRESET ==
    [name |-> "Default x264", codec |-> "libx264",
     params |-> << <<"crf", "24">>, <<"preset", "veryslow">> >>]

\* a well-formed entry of .presets.json
CUSTOM_PRESET ==
    [name |-> "Custom x265", codec |-> "libx265",
     params |-> << <<"crf", "28">> >>]

merged_audio_codec == "aac"

\* the target height the user types when one is given
Height == 720

\* ---- user answers ----
AudioChoices == {"1", "2", "3"}
TrackLists == {<<>>, <<"-">>, <<"1", "0">>}
SubAnswers == {"", "01", "+1", "x"} \cup {ToString(k) : k \in 0..(MaxTracks - 1)}
ResAnswers == {"", ToString(Height), "0" \o ToString(Height), "abc"}
PresetAnswers == {"", "0", "1", "9", "x"}
YesNo == {"y", "n"}

\* ---- str.isdigit, int() and str() on the answers above ----
Numbers == 0..MaxTracks \cup {9, Height}

isdigit(s) == s = "01" \/ s = "0" \o ToString(Height) \/ \E k \in Numbers : s = ToString(k)

\* int(s) raises ValueError exactly when IntOk(s) is false
IntOk(s) == isdigit(s) \/ s = "+1"

int(s) ==
    IF s = "01" \/ s = "+1" THEN 1
    ELSE IF s = "0" \o ToString(Height) THEN Height
    ELSE CHOOSE k \in Numbers : s = ToString(k)

str(n) == ToString(n)

VARIABLES
    argc,               \* len(sys.argv[1:])
    i,                  \* main's loop index
    pc,                 \* position in main / encode_video
    presets,            \* ENCODE_SETTINGS['presets']
    cached_settings,    \* main's settings cache
    choice,             \* encode_video locals
    track_list,
    selected_subtitle,  \* id of the burnt-in track, or NoneInt
    should_reencode,
    preset,
    height,
    cmd_config,
    cmd,                \* the command given to subprocess.run, <<>> before
    result,             \* what became of the file
    retries,            \* invalid answers to the preset prompt so far
    prompts,            \* prompts issued since the loop body began
    examined,           \* argument indexes the loop has looked at, in order
    decision0           \* the decisions file 0 was launched with

vars == <<argc, i, pc, presets, cached_settings, choice,
          track_list, selected_subtitle, should_reencode,
          preset, height, cmd_config, cmd, result, retries, prompts,
          examined, decision0>>

locals == <<choice, track_list, selected_subtitle, should_reencode, preset, height, cmd_config,
            cmd, retries>>

\* ---- sequence helpers ----
Last(s) == s[Len(s)]

Drop2(s) == SubSeq(s, 3, Len(s))

Contains(s, t) == \E k \in 1..Len(s) : s[k] = t

RECURSIVE replace(_, _, _)
replace(s, old, new) ==
    IF s = <<>> THEN <<>>
    ELSE IF Head(s) = old THEN new \o replace(Tail(s), old, new)
    ELSE <<Head(s)>> \o replace(Tail(s), old, new)

RECURSIVE Flatten(_)
Flatten(ss) == IF ss = <<>> THEN <<>> ELSE Head(ss) \o Flatten(Tail(ss))

\* ---- pieces of encode_video ----

\* `cached_settings and cached_settings['use_cache']`
UseCache(cs) == cs.use_cache

\* the guard left out: every file stores its answers
StoreFirst_Always(file_index) == TRUE

\* `if file_index == 0:  # Store settings for first file`
StoreFirst(file_index) == file_index = 0

\* cmd_config as initialised at the top of encode_video
InitialConfig ==
    [video_settings |-> <<"-map", "0:v">>,
     audio_settings |-> <<>>,
     filter_complex |-> <<>>]

\* choice "1": all tracks, none, or the listed tracks, each stream-copied
IncludeAudio(tl) ==
    IF tl = <<>> THEN <<"-map", "0:a", "-c:a", "copy">>
    ELSE IF tl = <<"-">> THEN <<"-an">>
    ELSE Flatten([k \in 1..Len(tl) |->
                    <<"-map", "0:a:" \o tl[k], "-c:a", "copy">>])

\* the input count written for the usual two tracks instead of len(track_ids)
AmergeFilter_TwoInputs(track_ids) ==
    [k \in 1..Len(track_ids) |-> "[0:a:" \o track_ids[k] \o "]"]
        \o <<"amerge=inputs=2", "[aout]">>

\* choice "2": [0:a:i1]...[0:a:iN]amerge=inputs=N[aout]
AmergeFilter(track_ids) ==
    [k \in 1..Len(track_ids) |-> "[0:a:" \o track_ids[k] \o "]"]
        \o <<"amerge=inputs=" \o ToString(Len(track_ids)), "[aout]">>

\* f"{filter_complex};{fragment}" when a graph exists, else the fragment
Join(fc, fragment) ==
    IF fc # <<>> THEN fc \o <<";">> \o fragment ELSE fragment

MergeAudio(cc, tl) ==
    IF tl # <<>> /\ tl # NoneList
    THEN [cc EXCEPT !.filter_complex = Join(cc.filter_complex, AmergeFilter(tl)),
                    !.audio_settings = <<"-map", "[aout]", "-c:a", merged_audio_codec>>]
    ELSE cc

\* the audio part of the command for a file that has audio tracks
AudioConfig(cc, ch, tl) ==
    IF ch = "1" THEN [cc EXCEPT !.audio_settings = IncludeAudio(tl)]
    ELSE IF ch = "2" THEN MergeAudio(cc, tl)
    ELSE cc

NoAudioConfig(cc) == [cc EXCEPT !.audio_settings = <<"-an">>]

SubtitleFilter(sub_id) ==
    <<"[0:v]", "subtitles='<path>':si=" \o ToString(sub_id), "[vout]">>

\* both branches of `if cmd_config['filter_complex']` at the burn-in
BurnSubtitle(cc, sub_id) ==
    [cc EXCEPT !.filter_complex = Join(cc.filter_complex, SubtitleFilter(sub_id)),
               !.video_settings = <<"-map", "[vout]">> \o Drop2(cc.video_settings)]

\* next(track for track in subtitle_tracks if track['id'] == sub_id), ids 0..n-1
SelectSubtitle(n, sub_id) == IF sub_id \in 0..(n - 1) THEN sub_id ELSE NoneInt

\* `should_reencode = True` left out of the burn-in branch
ForcedReencode_Never(selected) == FALSE

\* selecting a subtitle sets should_reencode
ForcedReencode(selected) == selected # NoneInt

PresetArgs(p) ==
    <<"-c:v", p.codec>>
        \o Flatten([k \in 1..Len(p.params) |->
                      <<"-" \o p.params[k][1], p.params[k][2]>>])

\* the resolution block for a numeric answer
ScaleVideo(cc, h) ==
    LET scale_filter == "scale=-1:" \o ToString(h)
        video_filter == <<"[0:v]", scale_filter, "[vout]">>
    IN  IF cc.filter_complex # <<>>
        THEN IF Contains(cc.filter_complex, "[aout]")
             THEN [cc EXCEPT
                     !.filter_complex = cc.filter_complex \o <<";">> \o video_filter,
                     !.video_settings = <<"-map", "[vout]">> \o Drop2(cc.video_settings)]
             ELSE [cc EXCEPT
                     !.filter_complex =
                         replace(cc.filter_complex, "[vout]",
                                 <<"[vtmp]", ";", "[vtmp]", scale_filter, "[vout]">>)]
        ELSE [cc EXCEPT
                !.filter_complex = video_filter,
                !.video_settings = <<"-map", "[vout]">> \o Drop2(cc.video_settings)]

\* the final stream-copy override left out
CopyVideo_Keep(cc, reenc) == cc

\* `if not should_reencode:` before the command is built
CopyVideo(cc, reenc) ==
    IF ~reenc THEN [cc EXCEPT !.video_settings = <<"-map", "0:v", "-c:v", "copy">>]
    ELSE cc

BuildCmd(cc) ==
    <<"ffmpeg", "-i", "<input>">>
        \o (IF cc.filter_complex # <<>>
            THEN <<"-filter_complex">> \o cc.filter_complex ELSE <<>>)
        \o cc.video_settings \o cc.audio_settings \o <<"<output>">>

\* no `except Exception`: the error leaves main
OnException_Crash == "crashed"

\* where control goes when encode_video's try block raises
OnException == "ret"

\* get_encoding_preset without its cache test
PresetCached_Never(cs) == FALSE

\* `'encoding_preset' in cached_settings` holds of main's cache, so the test
\* at the top of get_encoding_preset is the use_cache flag
PresetCached(cs) == cs.use_cache

\* `choice = input(...).strip() or "0"`, then the range test
PresetValid(a, ps) ==
    LET c == IF a = "" THEN "0" ELSE a
    IN  isdigit(c) /\ int(c) < Len(ps)

PresetPick(a, ps) == ps[int(IF a = "" THEN "0" ELSE a) + 1]

\* the decisions the current file is being encoded with
Decision ==
    [audio_choice |-> choice, audio_tracks |-> track_list,
     subtitle_track |-> selected_subtitle, should_reencode |-> should_reencode,
     preset |-> preset, target_height |-> height]

NoDecision ==
    [audio_choice |-> "unset", audio_tracks |-> NoneList,
     subtitle_track |-> NoneInt, should_reencode |-> FALSE,
     preset |-> NonePreset, target_height |-> NoneInt]

\* ---- the state machine ----

InitialCache ==
    [use_cache |-> FALSE, audio_choice |-> NoneStr, audio_tracks |-> NoneList,
     subtitle_track |-> NoneInt, should_reencode |-> FALSE,
     target_height |-> NoneInt, encoding_preset |-> NonePreset]

FreshLocals ==
    /\ choice' = NoneStr
    /\ track_list' = NoneList
    /\ selected_subtitle' = NoneInt
    /\ should_reencode' = FALSE
    /\ preset' = NonePreset
    /\ height' = NoneInt
    /\ cmd_config' = InitialConfig
    /\ cmd' = <<>>
    /\ retries' = 0

Init ==
    /\ argc \in 0..MaxFiles
    /\ i = 0
    /\ pc = "start"
    /\ presets = <<DEFAULT_PRESET>>
    /\ cached_settings = InitialCache
    /\ choice = NoneStr
    /\ track_list = NoneList
    /\ selected_subtitle = NoneInt
    /\ should_reencode = FALSE
    /\ preset = NonePreset
    /\ height = NoneInt
    /\ cmd_config = InitialConfig
    /\ cmd = <<>>
    /\ retries = 0
    /\ result = "none"
    /\ prompts = {}
    /\ examined = <<>>
    /\ decision0 = NoDecision

\* main: load_encoding_presets, the usage return, the cache's construction
Start ==
    /\ pc = "start"
    /\ \E loaded \in BOOLEAN :
         presets' = IF loaded THEN presets \o <<CUSTOM_PRESET>> ELSE presets
    /\ pc' = IF argc < 1 THEN "done" ELSE "loop"
    /\ UNCHANGED <<argc, i, cached_settings, locals, result, prompts,
                   examined, decision0>>

\* main: a path that is missing, not a file, or not a video: `continue`
SkipFile ==
    /\ pc = "loop"
    /\ i < argc
    /\ \E why \in {"missing", "notfile", "notvideo"} : result' = why
    /\ examined' = Append(examined, i)
    /\ i' = i + 1
    /\ prompts' = {}
    /\ UNCHANGED <<argc, pc, presets, cached_settings, locals, decision0>>

\* main: a video file: encode_video(path, cached_settings, i) is entered
CallEncode ==
    /\ pc = "loop"
    /\ i < argc
    /\ examined' = Append(examined, i)
    /\ pc' = "audio"
    /\ result' = "none"
    /\ prompts' = {}
    /\ FreshLocals
    /\ UNCHANGED <<argc, i, presets, cached_settings, decision0>>

\* encode_video: the audio block
EncodeAudio ==
    /\ pc = "audio"
    /\ \E n \in 0..MaxTracks, c \in AudioChoices, tl \in TrackLists :
         LET cs == cached_settings
             use == UseCache(cs)
             ch == IF use THEN cs.audio_choice ELSE c
             bound == use \/ ch \in {"1", "2"}
             tlv == IF use THEN cs.audio_tracks
                    ELSE IF bound THEN tl ELSE NoneList
             store == ~use /\ StoreFirst(i)
             cs1 == IF store THEN [cs EXCEPT !.audio_choice = ch] ELSE cs
             cs2 == IF store /\ bound THEN [cs1 EXCEPT !.audio_tracks = tlv] ELSE cs1
             unbound == store /\ ~bound
             nosplit == ch = "1" /\ tlv = NoneList
         IN  IF n = 0
             THEN /\ cmd_config' = NoAudioConfig(cmd_config)
                  /\ pc' = "subtitle"
                  /\ UNCHANGED <<choice, track_list, cached_settings, prompts, result>>
             ELSE /\ choice' = ch
                  /\ track_list' = tlv
                  /\ cached_settings' = cs2
                  /\ prompts' = IF use THEN prompts
                                ELSE IF bound
                                     THEN prompts \cup {"audio mode", "audio tracks"}
                                     ELSE prompts \cup {"audio mode"}
                  /\ IF unbound \/ nosplit
                     THEN /\ pc' = OnException
                          /\ result' = "exception"
                          /\ UNCHANGED cmd_config
                     ELSE /\ pc' = "subtitle"
                          /\ cmd_config' = AudioConfig(cmd_config, ch, tlv)
                          /\ UNCHANGED result
    /\ UNCHANGED <<argc, i, presets, selected_subtitle, should_reencode, preset,
                   height, cmd, retries, examined, decision0>>

\* encode_video: the subtitle block
EncodeSubtitle ==
    /\ pc = "subtitle"
    /\ \E n \in 0..MaxTracks, a \in SubAnswers :
         LET cs == cached_settings
             use == UseCache(cs)
             sub_choice == IF use
                           THEN IF cs.subtitle_track # NoneInt
                                THEN str(cs.subtitle_track) ELSE ""
                           ELSE a
             store == n > 0 /\ ~use /\ StoreFirst(i)
             sel == IF n > 0 /\ sub_choice # "" /\ IntOk(sub_choice)
                    THEN SelectSubtitle(n, int(sub_choice)) ELSE NoneInt
         IN  /\ cached_settings' =
                  IF store
                  THEN [cs EXCEPT !.subtitle_track =
                                      IF isdigit(a) THEN int(a) ELSE NoneInt]
                  ELSE cs
             /\ prompts' = IF n > 0 /\ ~use THEN prompts \cup {"subtitle"} ELSE prompts
             /\ selected_subtitle' = sel
             /\ should_reencode' = ForcedReencode(sel)
             /\ cmd_config' = IF sel # NoneInt THEN BurnSubtitle(cmd_config, sel)
                              ELSE cmd_config
    /\ pc' = "reencode"
    /\ UNCHANGED <<argc, i, presets, choice, track_list, preset, height, cmd,
                   result, retries, examined, decision0>>

\* encode_video: `if not should_reencode:` ask, or take the cached flag
EncodeReencode ==
    /\ pc = "reencode"
    /\ \E a \in YesNo :
         LET cs == cached_settings
             use == UseCache(cs)
             ask == ~should_reencode /\ ~use
             re == IF should_reencode THEN TRUE
                   ELSE IF use THEN cs.should_reencode
                   ELSE a = "y"
         IN  /\ should_reencode' = re
             /\ prompts' = IF ask THEN prompts \cup {"reencode"} ELSE prompts
             /\ cached_settings' =
                  IF ask /\ StoreFirst(i) THEN [cs EXCEPT !.should_reencode = re]
                  ELSE cs
             /\ pc' = IF re THEN "preset" ELSE "run"
    /\ UNCHANGED <<argc, i, presets, choice, track_list, selected_subtitle,
                   preset, height, cmd_config, cmd, result, retries, examined,
                   decision0>>

\* get_encoding_preset: an answer the `while True` loop rejects
PresetRetry ==
    /\ pc = "preset"
    /\ ~PresetCached(cached_settings)
    /\ Len(presets) # 1
    /\ retries < MaxRetries
    /\ \E a \in PresetAnswers : ~PresetValid(a, presets)
    /\ retries' = retries + 1
    /\ prompts' = prompts \cup {"preset"}
    /\ UNCHANGED <<argc, i, pc, presets, cached_settings, choice, track_list,
                   selected_subtitle, should_reencode, preset, height,
                   cmd_config, cmd, result, examined, decision0>>

\* get_encoding_preset returns; the preset's codec and params are appended
EncodePreset ==
    /\ pc = "preset"
    /\ \E a \in PresetAnswers :
         LET cs == cached_settings
             cached == PresetCached(cs)
             single == Len(presets) = 1
             ask == ~cached /\ ~single
             p == IF cached THEN cs.encoding_preset
                  ELSE IF single THEN presets[1]
                  ELSE PresetPick(a, presets)
         IN  /\ ask => PresetValid(a, presets)
             /\ prompts' = IF ask THEN prompts \cup {"preset"} ELSE prompts
             /\ cached_settings' =
                  IF ~cached /\ StoreFirst(i) THEN [cs EXCEPT !.encoding_preset = p]
                  ELSE cs
             /\ preset' = p
             /\ IF p = NonePreset
                THEN /\ pc' = OnException
                     /\ result' = "exception"
                     /\ UNCHANGED cmd_config
                ELSE /\ pc' = "resolution"
                     /\ cmd_config' =
                          [cmd_config EXCEPT !.video_settings = @ \o PresetArgs(p)]
                     /\ UNCHANGED result
    /\ retries' = 0
    /\ UNCHANGED <<argc, i, presets, choice, track_list, selected_subtitle,
                   should_reencode, height, cmd, examined, decision0>>

\* encode_video: the resolution block
EncodeResolution ==
    /\ pc = "resolution"
    /\ \E a \in ResAnswers :
         LET cs == cached_settings
             use == UseCache(cs)
             res_choice == IF use
                           THEN IF cs.target_height # NoneInt
                                THEN str(cs.target_height) ELSE ""
                           ELSE a
             scale == res_choice # "" /\ isdigit(res_choice)
         IN  /\ prompts' = IF use THEN prompts ELSE prompts \cup {"resolution"}
             /\ cached_settings' =
                  IF ~use /\ StoreFirst(i)
                  THEN [cs EXCEPT !.target_height =
                                      IF isdigit(a) THEN int(a) ELSE NoneInt]
                  ELSE cs
             /\ height' = IF scale THEN int(res_choice) ELSE NoneInt
             /\ cmd_config' = IF scale THEN ScaleVideo(cmd_config, int(res_choice))
                              ELSE cmd_config
    /\ pc' = "run"
    /\ UNCHANGED <<argc, i, presets, choice, track_list, selected_subtitle,
                   should_reencode, preset, cmd, result, retries, examined,
                   decision0>>

\* encode_video: the stream-copy override and the final ffmpeg command
BuildCommand ==
    /\ pc = "run"
    /\ cmd_config' = CopyVideo(cmd_config, should_reencode)
    /\ cmd' = BuildCmd(cmd_config')
    /\ decision0' = IF i = 0 THEN Decision ELSE decision0
    /\ pc' = "launch"
    /\ UNCHANGED <<argc, i, presets, cached_settings, choice, track_list,
                   selected_subtitle, should_reencode, preset, height, retries,
                   result, prompts, examined>>

\* encode_video: subprocess.run(cmd) and the return to main
RunEncoder ==
    /\ pc = "launch"
    /\ \E r \in {"ok", "nonzero", "notfound"} : result' = r
    /\ pc' = "ret"
    /\ FreshLocals
    /\ UNCHANGED <<argc, i, presets, cached_settings, prompts, examined,
                   decision0>>

\* main: after file 0, with more files to come, ask about the same settings
AskSame ==
    /\ pc = "ret"
    /\ i = 0
    /\ argc > 1
    /\ \E use_same \in YesNo :
         cached_settings' = [cached_settings EXCEPT !.use_cache = (use_same = "y")]
    /\ prompts' = {"same settings"}
    /\ i' = i + 1
    /\ pc' = "loop"
    /\ FreshLocals
    /\ UNCHANGED <<argc, presets, result, examined, decision0>>

\* main: encode_video returned and nothing is asked
NextFile ==
    /\ pc = "ret"
    /\ ~(i = 0 /\ argc > 1)
    /\ i' = i + 1
    /\ pc' = "loop"
    /\ prompts' = {}
    /\ FreshLocals
    /\ UNCHANGED <<argc, presets, cached_settings, result, examined, decision0>>

\* main: input("Press Enter to exit...")
PressEnter ==
    /\ pc = "loop"
    /\ i = argc
    /\ prompts' = {"exit"}
    /\ pc' = "exit"
    /\ UNCHANGED <<argc, i, presets, cached_settings, locals, result, examined,
                   decision0>>

Exit ==
    /\ pc = "exit"
    /\ pc' = "done"
    /\ UNCHANGED <<argc, i, presets, cached_settings, locals, result, prompts,
                   examined, decision0>>

Next ==
    \/ Start
    \/ SkipFile
    \/ CallEncode
    \/ EncodeAudio
    \/ EncodeSubtitle
    \/ EncodeReencode
    \/ PresetRetry
    \/ EncodePreset
    \/ EncodeResolution
    \/ BuildCommand
    \/ RunEncoder
    \/ AskSame
    \/ NextFile
    \/ PressEnter
    \/ Exit

Spec == Init /\ [][Next]_vars

\* every prompt is answered, and the preset prompt eventually validly
FairSpec == Spec /\ WF_vars(Next)

\* ---- reading a filter graph ----

RECURSIVE Fragments(_)
Fragments(fc) ==
    IF fc = <<>> THEN <<>>
    ELSE LET cut == IF Contains(fc, ";")
                    THEN CHOOSE k \in 1..Len(fc) :
                             fc[k] = ";" /\ \A j \in 1..(k - 1) : fc[j] # ";"
                    ELSE Len(fc) + 1
         IN  <<SubSeq(fc, 1, cut - 1)>> \o Fragments(SubSeq(fc, cut + 1, Len(fc)))

NamedLabels == {"[aout]", "[vout]", "[vtmp]"}

VideoLabels == {"[0:v]", "[vout]", "[vtmp]"}

Output(fragment) == Last(fragment)

Inputs(fragment) == {fragment[k] : k \in 1..(Len(fragment) - 1)}

Producers(fc, label) ==
    {k \in 1..Len(Fragments(fc)) : Output(Fragments(fc)[k]) = label}

IsAudioFragment(fragment) == Output(fragment) = "[aout]"

IsVideoFragment(fragment) == ~IsAudioFragment(fragment)

VideoFragments(fc) == SelectSeq(Fragments(fc), IsVideoFragment)

Launched == pc = "launch"

SubtitleBody(k) == "subtitles='<path>':si=" \o ToString(k)

ScaleBody(h) == "scale=-1:" \o ToString(h)

CopyArgs(vs) == \E k \in 1..(Len(vs) - 1) : vs[k] = "-c:v" /\ vs[k + 1] = "copy"

MapsVout(vs) == Len(vs) >= 2 /\ vs[1] = "-map" /\ vs[2] = "[vout]"

DecisionFields(cs) ==
    <<cs.audio_choice, cs.audio_tracks, cs.subtitle_track, cs.should_reencode,
      cs.target_height, cs.encoding_preset>>

Failures == {"missing", "notfile", "notvideo", "exception", "nonzero", "notfound"}

\* ---- the claims ----

\* C1: in the filter graph handed to the encoder each of [aout], [vout] and
\* [vtmp] is produced by at most one fragment, and every named label a
\* fragment reads is produced by an earlier fragment.
C1_NoDuplicateOutput ==
    Launched =>
        LET fc == cmd_config.filter_complex
            fr == Fragments(fc)
        IN  /\ \A l \in NamedLabels : Cardinality(Producers(fc, l)) <= 1
            /\ \A k \in 1..Len(fr) :
                 \A l \in Inputs(fr[k]) \cap NamedLabels :
                    \E j \in 1..(k - 1) : Output(fr[j]) = l

\* C2: with a burnt-in subtitle and a numeric target height, whatever the
\* audio choice, the video part of the graph is the chain
\* [0:v]subtitles..[vtmp] ; [vtmp]scale..[vout] and the video arguments
\* start with -map [vout].
C2_TwoStageChain ==
    (Launched /\ selected_subtitle # NoneInt /\ height # NoneInt) =>
        /\ VideoFragments(cmd_config.filter_complex) =
             << <<"[0:v]", SubtitleBody(selected_subtitle), "[vtmp]">>,
                <<"[vtmp]", ScaleBody(height), "[vout]">> >>
        /\ MapsVout(cmd_config.video_settings)

\* C3: with the same settings accepted after file 0, every later file that
\* is encoded uses the decisions file 0 was encoded with: the same reencode
\* flag, preset and target height, the same audio mode and track list when
\* both files took an audio decision, and no other burn-in track than file 0.
C3_SameDecisions ==
    (Launched /\ i >= 1 /\ cached_settings.use_cache /\ decision0 # NoDecision) =>
        /\ should_reencode = decision0.should_reencode
        /\ preset = decision0.preset
        /\ height = decision0.target_height
        /\ (choice # NoneStr /\ decision0.audio_choice # NoneStr) =>
             (choice = decision0.audio_choice /\ track_list = decision0.audio_tracks)
        /\ selected_subtitle # NoneInt =>
             selected_subtitle = decision0.subtitle_track

\* C4: once use_cache is true no step issues a decision prompt; the only
\* prompt still issued is the final Press Enter.
C4_NoPromptWithCache ==
    [][cached_settings.use_cache => prompts' \subseteq (prompts \cup {"exit"})]_vars

C4_Witness ==
    /\ Launched
    /\ i >= 1
    /\ cached_settings.use_cache
    /\ Len(presets) > 1
    /\ choice = "2"
    /\ selected_subtitle # NoneInt
    /\ height # NoneInt
    /\ prompts = {}

\* the loop has looked at paths 0, 1, ... in that order, each once
ExaminedInOrder ==
    /\ examined = [k \in 1..Len(examined) |-> k - 1]
    /\ Len(examined) = IF pc \in {"start", "loop", "exit", "done"} THEN i ELSE i + 1
    /\ pc = "exit" => Len(examined) = argc

\* C5: the loop looks at each path once, in argument order, whatever became
\* of the paths before it, and every run that was given arguments reaches
\* the final Press Enter step, which comes only after the last path.
C5_EveryPathThenExit ==
    /\ ExaminedInOrder
    /\ [][ExaminedInOrder']_vars
    /\ (argc >= 1 => <>(pc = "exit"))

C5_Witness ==
    /\ pc = "loop"
    /\ result = "exception"
    /\ i >= 1
    /\ i < argc

\* C6: when a track of the file is selected for burn-in, the reencode
\* question is not asked, should_reencode is true, the video arguments start
\* with -map [vout] and hold no -c:v copy, and the graph has a subtitles
\* fragment with si=k reading [0:v].
C6_BurnInForcesReencode ==
    (pc \in {"reencode", "preset", "resolution", "run", "launch"}
        /\ selected_subtitle # NoneInt) =>
        /\ should_reencode
        /\ "reencode" \notin prompts
        /\ MapsVout(cmd_config.video_settings)
        /\ ~CopyArgs(cmd_config.video_settings)
        /\ \E k \in 1..Len(Fragments(cmd_config.filter_complex)) :
             LET f == Fragments(cmd_config.filter_complex)[k]
             IN  /\ Len(f) = 3
                 /\ f[1] = "[0:v]"
                 /\ f[2] = SubtitleBody(selected_subtitle)

C6_Witness ==
    /\ Launched
    /\ i >= 1
    /\ cached_settings.use_cache
    /\ selected_subtitle = 1
    /\ choice = "2"
    /\ height # NoneInt

\* C7: a command launched with reencode false has the video arguments
\* -map 0:v -c:v copy and a graph without any video fragment or video label.
C7_CopyHasNoVideoFilter ==
    (Launched /\ ~should_reencode) =>
        /\ cmd_config.video_settings = <<"-map", "0:v", "-c:v", "copy">>
        /\ VideoFragments(cmd_config.filter_complex) = <<>>
        /\ \A k \in 1..Len(cmd_config.filter_complex) :
             cmd_config.filter_complex[k] \notin {"[vout]", "[vtmp]", "[0:v]"}

C7_Witness ==
    /\ Launched
    /\ ~should_reencode
    /\ choice = "2"
    /\ cmd_config.filter_complex # <<>>

\* C8: with audio mode merge and a non-empty track list i1..iN the graph's
\* first fragment is [0:a:i1]...[0:a:iN]amerge=inputs=N[aout], no other
\* fragment produces [aout], it reads no video label, and the audio
\* arguments are -map [aout] -c:a <merged codec>.
C8_MergeFragment ==
    (choice = "2" /\ track_list # <<>> /\ track_list # NoneList
        /\ pc \in {"subtitle", "reencode", "preset", "resolution", "run", "launch"}) =>
        LET fc == cmd_config.filter_complex
            fr == Fragments(fc)
            n == Len(track_list)
        IN  /\ Len(fr) >= 1
            /\ Len(fr[1]) = n + 2
            /\ \A k \in 1..n : fr[1][k] = "[0:a:" \o track_list[k] \o "]"
            /\ fr[1][n + 1] = "amerge=inputs=" \o ToString(n)
            /\ fr[1][n + 2] = "[aout]"
            /\ Producers(fc, "[aout]") = {1}
            /\ \A k \in 2..Len(fr) : \A t \in 1..Len(fr[k]) :
                 fr[k][t] \notin {fr[1][u] : u \in 1..(n + 2)}
            /\ Inputs(fr[1]) \cap VideoLabels = {}
            /\ cmd_config.audio_settings = <<"-map", "[aout]", "-c:a", "aac">>

C8_Witness ==
    /\ Launched
    /\ choice = "2"
    /\ track_list = <<"1", "0">>
    /\ selected_subtitle # NoneInt
    /\ height # NoneInt

\* C9: the decision fields of the cache change only while index 0 is being
\* processed, and use_cache changes only in the step that follows file 0's
\* encode attempt, which moves the loop to index 1.
C9_CacheWrittenOnFirstFile ==
    [][/\ i >= 1 => DecisionFields(cached_settings') = DecisionFields(cached_settings)
       /\ cached_settings'.use_cache # cached_settings.use_cache =>
            (pc = "ret" /\ result # "none" /\ i = 0 /\ i' = 1
                /\ DecisionFields(cached_settings') = DecisionFields(cached_settings))
       /\ i' >= i]_vars

C9_Witness ==
    /\ Launched
    /\ i >= 1
    /\ ~cached_settings.use_cache
    /\ prompts = {"audio mode", "audio tracks", "subtitle", "reencode",
                  "preset", "resolution"}
    /\ cached_settings.audio_choice # choice
    /\ cached_settings.should_reencode # should_reencode
    /\ cached_settings.target_height # height

\* C10: every launched command says what happens to audio: its audio
\* arguments are -an or hold a -map.
C10_AudioStated ==
    Launched =>
        \/ cmd_config.audio_settings = <<"-an">>
        \/ Contains(cmd_config.audio_settings, "-map")

====
